---- MODULE Spec2Model ----
(***************************************************************************)
(* Brand Voice analyzer: the Analysis Gateway (POST /api/analyze), the     *)
(* Dashboard client (handleAnalyze / callAnalyzeAPI) and the client's      *)
(* local fallback scorer (mockAnalysis), from src/app/api/analyze/route.ts *)
(*                                                                         *)
(* JavaScript values are records tagged by "kind".  A string is the        *)
(* sequence of its characters.  Fractional scores are kept in hundredths   *)
(* (0.8 is 80, readability 88.5 is 8850).                                  *)
(***************************************************************************)
EXTENDS Integers, Sequences, FiniteSets, Bags, TLC

VARIABLES
    mockIn,     \* the inputText handed to mockAnalysis
    mockOut,    \* what mockAnalysis returned for it (Undefined before the call)
    gwReq,      \* Gateway: the body of the request POST is serving
    gwPc,       \* Gateway: "idle", "await" (in axios.post) or "responded"
    gwSent,     \* Gateway: the upstream calls POST made for gwReq
    gwUp,       \* Gateway: how the upstream call ended (Undefined: none)
    gwResp,     \* Gateway: the HTTP response to gwReq
    text,       \* Dashboard: useState text, the textarea's content
    loading,    \* Dashboard: useState loading
    result,     \* Dashboard: useState result
    error,      \* Dashboard: useState error
    calls,      \* Dashboard: the bag of handleAnalyze calls that have not
                \*   returned, each [text, stage, outcome]: stage "fetch"
                \*   while awaiting fetch / resp.json(), "timer" while
                \*   awaiting the 600 ms timer of the catch block
    completed   \* Dashboard: the last handleAnalyze call that ran to its end:
                \*   [text, outcome, status, stored], stored being the value
                \*   it passed to setResult (Undefined: none yet)

mockVars == <<mockIn, mockOut>>
gwVars == <<gwReq, gwPc, gwSent, gwUp, gwResp>>
uiVars == <<text, loading, result, error, calls, completed>>
vars == <<mockVars, gwVars, uiVars>>

---------------------------------------------------------------------------
(* JavaScript values *)

Undefined == [kind |-> "undefined"]
Null == [kind |-> "null"]
Str(s) == [kind |-> "string", chars |-> s]
EmptyObject == [kind |-> "object"]

\* o.name: a property the object does not have reads as undefined
Get(o, name) == IF name \in DOMAIN o THEN o[name] ELSE Undefined

---------------------------------------------------------------------------
(* Strings *)

\* the case folding of the regular expressions' i flag
LowerCase ==
    [
      A |-> "a", B |-> "b", C |-> "c", D |-> "d", E |-> "e", F |-> "f", G |-> "g",
      H |-> "h", I |-> "i", J |-> "j", K |-> "k", L |-> "l", M |-> "m", N |-> "n",
      O |-> "o", P |-> "p", Q |-> "q", R |-> "r", S |-> "s", T |-> "t", U |-> "u",
      V |-> "v", W |-> "w", X |-> "x", Y |-> "y", Z |-> "z" ]

Lower(c) == IF c \in DOMAIN LowerCase THEN LowerCase[c] ELSE c

\* pat (lower case) occurs in s at position i, ignoring case
MatchAt(s, i, pat) ==
    /\ i + Len(pat) - 1 <= Len(s)
    /\ \A j \in 1..Len(pat) : Lower(s[i + j - 1]) = pat[j]

\* /a|b|c/i.test(s): some alternative occurs somewhere in s
RegexTestCaseSensitive(alts, s) ==
    \E pat \in alts : \E i \in 1..Len(s) :
        /\ i + Len(pat) - 1 <= Len(s)
        /\ \A j \in 1..Len(pat) : s[i + j - 1] = pat[j]

RegexTest(alts, s) ==
    \E pat \in alts : \E i \in 1..Len(s) : MatchAt(s, i, pat)

\* s.split(" "): the pieces between single space characters.  The pieces
\* lie between the boundaries: 0, the positions of the spaces, Len(s) + 1.
SplitBoundaries(s) == {0, Len(s) + 1} \cup { i \in 1..Len(s) : s[i] = " " }

Split(s) ==
    LET B == SplitBoundaries(s)
        nth(k) == CHOOSE b \in B : Cardinality({ c \in B : c < b }) = k - 1
    IN  [ k \in 1..(Cardinality(B) - 1) |-> SubSeq(s, nth(k) + 1, nth(k + 1) - 1) ]

W_guys == <<"g","u","y","s">>
W_team == <<"t","e","a","m">>

\* s.replace(/guys/gi, "team"): matches cannot overlap and the replacement
\* is as long as the match, so each character of a match becomes the
\* character of "team" at its offset
ReplaceGuys(s) ==
    [ i \in 1..Len(s) |->
        IF \E k \in 0..3 : i - k >= 1 /\ MatchAt(s, i - k, W_guys)
        THEN W_team[1 + CHOOSE k \in 0..3 : i - k >= 1 /\ MatchAt(s, i - k, W_guys)]
        ELSE s[i] ]

IsSpace(c) == c \in {" ", "\t", "\n"}

\* s.trim()
RECURSIVE Trim(_)
Trim(s) ==
    IF s = <<>> THEN s
    ELSE IF IsSpace(Head(s)) THEN Trim(Tail(s))
    ELSE IF IsSpace(s[Len(s)]) THEN Trim(SubSeq(s, 1, Len(s) - 1))
    ELSE s

---------------------------------------------------------------------------
(* The fallback scorer, mockAnalysis *)

PositivityWords == { <<"t","h","a","n","k">>, <<"t","h","a","n","k","s">>,
                     <<"e","x","c","i","t","e","d">>, <<"t","h","r","i","l","l">>,
                     <<"g","r","e","a","t">> }
FormalityWords == { <<"w","e"," ","a","r","e">>, <<"o","u","r"," ","t","e","a","m">>,
                    <<"a","n","n","o","u","n","c","e">> }
ConfidenceWords == { <<"w","i","l","l">>, <<"g","u","a","r","a","n","t","e","e">>,
                     <<"d","e","f","i","n","i","t","e","l","y">> }
InclusivityWords == { W_guys, <<"l","a","d","i","e","s">>,
                      <<"m","a","n","p","o","w","e","r">> }

positivityCaseSensitive(inputText) ==
    IF RegexTestCaseSensitive(PositivityWords, inputText) THEN 80 ELSE 45

positivity(inputText) == IF RegexTest(PositivityWords, inputText) THEN 80 ELSE 45

formality(inputText) == IF RegexTest(FormalityWords, inputText) THEN 70 ELSE 40

confidence(inputText) == IF RegexTest(ConfidenceWords, inputText) THEN 75 ELSE 55

GuysIssue == [index |-> 0, text |-> Str(W_guys), suggestion |-> Str(W_team)]

inclusivityIssuesGuysOnly(inputText) ==
    IF RegexTest({W_guys}, inputText) THEN <<GuysIssue>> ELSE <<>>

inclusivityIssues(inputText) ==
    IF RegexTest(InclusivityWords, inputText) THEN <<GuysIssue>> ELSE <<>>

\* Math.max(30, 90 - inputText.split(" ").length / 2), in hundredths
readability(inputText) ==
    LET r == 9000 - 50 * Len(Split(inputText))
    IN  IF r > 3000 THEN r ELSE 3000

ImprovedPrefix == <<"I","m","p","r","o","v","e","d"," ","(","m","o","c","k",")",":"," ">>

mockAnalysis(inputText) ==
    [ kind |-> "object",
      sentiment |-> [ label |-> IF positivity(inputText) > 60
                                THEN "POSITIVE" ELSE "NEUTRAL",
                      score |-> positivity(inputText) ],
      readability |-> readability(inputText),
      tone |-> [ formality |-> formality(inputText),
                 confidence |-> confidence(inputText),
                 positivity |-> positivity(inputText) ],
      inclusivity |-> [ score |-> 100 - Len(inclusivityIssues(inputText)) * 20,
                        issues |-> inclusivityIssues(inputText) ],
      improved_text |-> Str(ImprovedPrefix \o ReplaceGuys(inputText)) ]

---------------------------------------------------------------------------
(* Inputs of the scorer: up to MaxPieces pieces put together, and a few    *)
(* long texts around the 120 words where readability meets its floor       *)

MaxPieces == 3

Pieces == { W_guys, <<"G","u","y","s">>, <<"l","a","d","i","e","s">>,
            <<"M","a","n","p","o","w","e","r">>,
            <<"t","h","a","n","k">>, <<"T","H","A","N","K","S">>,
            <<"e","x","c","i","t","e","d">>, <<"t","h","r","i","l","l">>,
            <<"G","r","e","a","t">>,
            <<"w","i","l","l">>, <<"a","n","n","o","u","n","c","e">>,
            <<"h","i">>, <<" ">>, <<"\t">>, <<"\n">> }

RECURSIVE Concats(_)
Concats(n) ==
    IF n = 0 THEN { <<>> }
    ELSE LET P == Concats(n - 1) IN P \cup { p \o w : p \in P, w \in Pieces }

\* "a a a ... a", n characters
Alternating(n) == [i \in 1..n |-> IF i % 2 = 1 THEN "a" ELSE " "]

\* handleAnalyze hands callAnalyzeAPI, and so mockAnalysis, a trimmed non-empty text
MockTexts ==
    { t \in Concats(MaxPieces) : t # <<>> /\ Trim(t) = t }
        \cup { Alternating(n) : n \in {237, 239, 241, 243} }

---------------------------------------------------------------------------
(* The Analysis Gateway: analyzeWithOpenAI and POST *)

OpenAI == Str(<<"o","p","e","n","a","i">>)
HuggingFace == Str(<<"h","u","g","g","i","n","g","f","a","c","e">>)
InternalServerError ==
    Str(<<"I","n","t","e","r","n","a","l"," ","s","e","r","v","e","r"," ","e","r","r","o","r">>)
MissingText == Str(<<"M","i","s","s","i","n","g"," ","t","e","x","t">>)
FailedToAnalyze ==
    Str(<<"F","a","i","l","e","d"," ","t","o"," ","a","n","a","l","y","z","e"," ","t","e","x","t">>)
\* the message of the TypeError that reading a property of undefined raises
TypeErrorMessage == Str(<<"T","y","p","e","E","r","r","o","r">>)
EmptyJson == <<"{","}">>
\* the character U+0060, which a TLA+ string cannot hold
Backtick == "BACKTICK"
Fence == <<Backtick, Backtick, Backtick>>

\* !v
Falsy(v) ==
    \/ v.kind \in {"undefined", "null"}
    \/ v.kind = "string" /\ v.chars = <<>>

\* a || b
OrElse(a, b) == IF Falsy(a) THEN b ELSE a

\* JSON.stringify of a value inside a body: a Response object has no
\* enumerable property of its own and is written as {}
JsonValue(v) == IF v.kind = "response" THEN EmptyObject ELSE v

\* JSON.stringify of a response body: properties that are undefined are left out
JsonBody(body) ==
    [ f \in { g \in DOMAIN body : g = "kind" \/ body[g].kind # "undefined" } |->
          IF f = "kind" THEN body[f] ELSE JsonValue(body[f]) ]

\* NextResponse.json(body, { status })
NextResponseJson(body, status) ==
    [kind |-> "response", status |-> status, body |-> JsonBody(body)]

\* raw.replace(/^FENCE(json)?/i, ""), FENCE being three backticks
StripOpeningFence(s) ==
    IF MatchAt(s, 1, Fence)
    THEN IF MatchAt(s, 4, <<"j","s","o","n">>)
         THEN SubSeq(s, 8, Len(s))
         ELSE SubSeq(s, 4, Len(s))
    ELSE s

\* .replace(/FENCE$/i, "")
StripClosingFence(s) ==
    IF Len(s) >= 3 /\ MatchAt(s, Len(s) - 2, Fence)
    THEN SubSeq(s, 1, Len(s) - 3)
    ELSE s

\* the request analyzeWithOpenAI posts upstream; the prompt is the fixed
\* template around the text
UpstreamRequest(inputText) ==
    [ url |-> "https://api-inference.huggingface.co/models/llama-2-7b-chat",
      model |-> "gpt-4o-mini",
      system |-> "You are a professional brand communication analyst.",
      promptText |-> inputText ]

\* How axios.post ended: [kind |-> "reject", message] (a non-2xx status, a
\* timeout, a network error) or [kind |-> "response", data].
\* The error analyzeWithOpenAI's try block raises, Undefined when it raises none:
\* response.data.choices[0].message throws when choices is missing or empty.
UpstreamError(up) ==
    IF up.kind = "reject" THEN up.message
    ELSE IF "choices" \notin DOMAIN up.data THEN TypeErrorMessage
    ELSE IF up.data.choices = <<>> THEN TypeErrorMessage
    ELSE Undefined

analyzeWithOpenAI(inputText, up) ==
    IF UpstreamError(up) # Undefined
    THEN NextResponseJson([kind |-> "object", message |-> InternalServerError,
                           error |-> UpstreamError(up)], 500)
    ELSE LET message == Get(up.data.choices[1], "message")
             content == IF message = Undefined THEN Undefined
                        ELSE Get(message, "content")
             trimmed == IF content = Undefined THEN Undefined
                        ELSE Str(Trim(content.chars))
             raw == OrElse(trimmed, Str(EmptyJson))
         IN  Str(Trim(StripClosingFence(StripOpeningFence(raw.chars))))

\* A request body is [kind |-> "malformed", message] when req.json() throws,
\* else the parsed object.
\* const { text, provider = "huggingface" } = await req.json()
RequestText(req) == Get(req, "text")
RequestProvider(req) ==
    IF Get(req, "provider") = Undefined THEN HuggingFace ELSE Get(req, "provider")

\* POST reaches the call of analyzeWithOpenAI
CallsUpstream(req) ==
    /\ req.kind # "malformed"
    /\ ~Falsy(RequestText(req))
    /\ RequestProvider(req) = OpenAI

\* the response of POST to req, when the upstream call (if made) ends as up
POST(req, up) ==
    IF req.kind = "malformed"
    THEN NextResponseJson([kind |-> "object",
                           error |-> OrElse(req.message, FailedToAnalyze)], 500)
    ELSE IF Falsy(RequestText(req))
    THEN NextResponseJson([kind |-> "object", error |-> MissingText], 400)
    ELSE LET res == IF RequestProvider(req) = OpenAI
                    THEN analyzeWithOpenAI(RequestText(req), up)
                    ELSE Undefined
         IN  NextResponseJson([kind |-> "object", data |-> res], 200)

---------------------------------------------------------------------------
(* Requests and upstream behaviours *)

GwTexts ==
    { Undefined, Null, Str(<<>>), Str(<<" ">>), Str(<<"\t","\n">>),
      Str(<<"h","i">>), Str(<<" ","h","i"," ">>), Str(<<"h","i","\t","h","i">>),
      Str(<<"W","e"," ","a","r","e"," ","g","r","e","a","t">>),
      Str(<<"h","i"," ","g","u","y","s">>),
      Str(<<"t","h","a","n","k","s"," ","t","e","a","m">>),
      Str(<<"h","t","t","p","s",":","/","/","w","w","w",".","t","i","m","h","o","r","t",
            "o","n","s",".","c","a","/","t","i","m","s","-","f","o","r","-","g","o","o","d">>) }

GwProviders == { Undefined, Null, OpenAI, HuggingFace }

\* bodies on which req.json() throws
MalformedRequests ==
    { [kind |-> "malformed",
       message |-> Str(<<"U","n","e","x","p","e","c","t","e","d"," ","t","o","k","e","n">>)] }

GwRequests ==
    MalformedRequests
    \cup { JsonBody([kind |-> "object", text |-> t, provider |-> p]) :
               t \in GwTexts, p \in GwProviders }

UpstreamContents ==
    { <<>>, EmptyJson, <<" ","{","}"," ">>,
      <<Backtick,Backtick,Backtick,"{","}",Backtick,Backtick,Backtick>>,
      <<Backtick,Backtick,Backtick,"J","S","O","N","{","}",Backtick,Backtick,Backtick>>,
      <<Backtick,Backtick,Backtick,"j","s","o","n","\n","{","}","\n",Backtick,Backtick,Backtick>> }

UpstreamOutcomes ==
    { [kind |-> "reject", message |-> Str(m)] :
          m \in { <<"t","i","m","e","o","u","t">>,
                  <<"R","e","q","u","e","s","t"," ","f","a","i","l","e","d"," ",
                    "w","i","t","h"," ","s","t","a","t","u","s"," ","c","o","d","e"," ",
                    "4","0","1">> } }
    \cup { [kind |-> "response", data |-> d] :
               d \in { EmptyObject,
                       [kind |-> "object", choices |-> <<>>],
                       [kind |-> "object", choices |-> <<EmptyObject>>] } }
    \cup { [kind |-> "response",
            data |-> [kind |-> "object",
                      choices |-> << [kind |-> "object",
                                      message |-> [kind |-> "object",
                                                   content |-> Str(c)]] >>]] :
               c \in UpstreamContents }

\* a request arrives; POST runs to its response, or to its await of axios.post
GwReceive(req) ==
    /\ gwPc # "await"
    /\ gwReq' = req
    /\ gwUp' = Undefined
    /\ IF CallsUpstream(req)
       THEN /\ gwPc' = "await"
            /\ gwSent' = <<UpstreamRequest(RequestText(req))>>
            /\ gwResp' = Undefined
       ELSE /\ gwPc' = "responded"
            /\ gwSent' = <<>>
            /\ gwResp' = POST(req, Undefined)
    /\ UNCHANGED <<mockVars, uiVars>>

\* axios.post settles; POST runs to its response
GwUpstreamSettles(up) ==
    /\ gwPc = "await"
    /\ gwUp' = up
    /\ gwResp' = POST(gwReq, up)
    /\ gwPc' = "responded"
    /\ UNCHANGED <<gwReq, gwSent, mockVars, uiVars>>

---------------------------------------------------------------------------
(* The Dashboard client: callAnalyzeAPI, handleAnalyze and the buttons *)

SAMPLE_TEXT ==
    <<"h","t","t","p","s",":","/","/","w","w","w",".","t","i","m","h","o","r","t",
      "o","n","s",".","c","a","/","t","i","m","s","-","f","o","r","-","g","o","o","d">>

ValidationMessage ==
    Str(<<"P","l","e","a","s","e"," ","p","a","s","t","e"," ","t","e","x","t"," ",
          "o","r"," ","a"," ","U","R","L"," ","t","o"," ","a","n","a","l","y","z","e",".">>)

\* how many handleAnalyze calls the model lets be under way at once
MaxCalls == 2

\* what the user types into the textarea
TypedTexts ==
    { <<" ","\n">>, <<" ","h","i"," ","g","u","y","s"," ">> }

\* the body callAnalyzeAPI posts: JSON.stringify({ text, provider }), provider "openai"
AnalyzeRequest(inputText) ==
    JsonBody([kind |-> "object", text |-> Str(inputText), provider |-> OpenAI])

\* How fetch and resp.json() can end for a request: fetch rejects (no
\* connection); the body is not JSON (an error page of the server or of a
\* proxy), so resp.json() rejects; or the body is the JSON of POST's
\* response, POST having read the request whole or not.
FetchOutcomes(req) ==
    { [kind |-> "networkError", status |-> 0, body |-> Undefined],
      [kind |-> "unparseable", status |-> 502, body |-> Undefined] }
    \cup { [kind |-> "json", status |-> r.status, body |-> r.body] :
               r \in { POST(req, up) : up \in UpstreamOutcomes }
                        \cup { POST(m, Undefined) : m \in MalformedRequests } }

\* the texts handleAnalyze can pass on: trimmed and not empty
CallTexts == { Trim(t) : t \in TypedTexts \cup {SAMPLE_TEXT} } \ { <<>> }

\* FetchOutcomes of the request of each text, tabulated
RECURSIVE TabulateFetchOutcomes(_)
TabulateFetchOutcomes(S) ==
    IF S = {} THEN <<>>
    ELSE LET t == CHOOSE x \in S : TRUE
         IN  (t :> FetchOutcomes(AnalyzeRequest(t))) @@ TabulateFetchOutcomes(S \ {t})

FetchOutcomesOf == TabulateFetchOutcomes(CallTexts)

AllFetchOutcomes == UNION { FetchOutcomesOf[t] : t \in CallTexts }

\* the calls awaiting the Gateway's response
InFlight == { c \in BagToSet(calls) : c.stage = "fetch" }

\* textarea onChange
onChange(t) ==
    /\ text' = t
    /\ UNCHANGED <<loading, result, error, calls, completed, mockVars, gwVars>>

\* the "Use sample text" button
UseSampleText ==
    /\ text' = SAMPLE_TEXT
    /\ UNCHANGED <<loading, result, error, calls, completed, mockVars, gwVars>>

\* the "Clear" button
Clear ==
    /\ text' = <<>>
    /\ result' = Null
    /\ UNCHANGED <<loading, error, calls, completed, mockVars, gwVars>>

\* handleAnalyze without the return after setError: it goes on to call the API
handleAnalyzeNoReturn ==
    /\ BagCardinality(calls) < MaxCalls
    /\ error' = Null
    /\ loading' = TRUE
    /\ calls' = calls (+) SetToBag({ [text |-> Trim(text), stage |-> "fetch",
                                      outcome |-> "pending"] })
    /\ UNCHANGED <<text, result, completed, mockVars, gwVars>>

\* The Analyze button's onClick (aria-disabled does not keep a click from
\* it): handleAnalyze up to its return, or up to the await of fetch inside
\* callAnalyzeAPI.
handleAnalyze ==
    LET trimmed == Trim(text)
    IN  IF trimmed = <<>>
        THEN /\ error' = ValidationMessage
             /\ UNCHANGED <<text, loading, result, calls, completed, mockVars, gwVars>>
        ELSE /\ BagCardinality(calls) < MaxCalls
             /\ error' = Null
             /\ loading' = TRUE
             /\ calls' = calls (+) SetToBag({ [text |-> trimmed, stage |-> "fetch",
                                               outcome |-> "pending"] })
             /\ UNCHANGED <<text, result, completed, mockVars, gwVars>>

\* fetch / resp.json() of call c settle as o.  A rejection enters the catch
\* block, which awaits its timer; a parsed body runs callAnalyzeAPI to its
\* return of json.data, its finally, and handleAnalyze to setResult(data).
FetchSettles(c, o) ==
    /\ c \in InFlight
    /\ o \in FetchOutcomesOf[c.text]
    /\ IF o.kind \in {"networkError", "unparseable"}
       THEN /\ calls' = (calls (-) SetToBag({c}))
                            (+) SetToBag({ [c EXCEPT !.stage = "timer",
                                                     !.outcome = o.kind] })
            /\ UNCHANGED <<loading, result, completed>>
       ELSE LET data == Get(o.body, "data")
            IN  /\ loading' = FALSE
                /\ result' = data
                /\ calls' = calls (-) SetToBag({c})
                /\ completed' = [text |-> c.text, outcome |-> o.kind,
                                  status |-> o.status, stored |-> data]
    /\ UNCHANGED <<text, error, mockVars, gwVars>>

\* the catch block's timer fires: return mockAnalysis(inputText), the
\* finally, and handleAnalyze's setResult(data)
TimerFires(c) ==
    /\ c \in BagToSet(calls)
    /\ c.stage = "timer"
    /\ LET data == mockAnalysis(c.text)
       IN  /\ loading' = FALSE
           /\ result' = data
           /\ calls' = calls (-) SetToBag({c})
           /\ completed' = [text |-> c.text, outcome |-> c.outcome,
                             status |-> 0, stored |-> data]
    /\ UNCHANGED <<text, error, mockVars, gwVars>>

---------------------------------------------------------------------------
(* Specifications *)

MockIdle == mockIn = <<>> /\ mockOut = Undefined

GatewayIdle ==
    /\ gwReq = Undefined
    /\ gwPc = "idle"
    /\ gwSent = <<>>
    /\ gwUp = Undefined
    /\ gwResp = Undefined

\* the Dashboard's useState initial values
ClientIdle ==
    /\ text = SAMPLE_TEXT
    /\ loading = FALSE
    /\ result = Null
    /\ error = Null
    /\ calls = EmptyBag
    /\ completed = Undefined

MockInit ==
    /\ mockIn \in MockTexts
    /\ mockOut = Undefined
    /\ GatewayIdle
    /\ ClientIdle

MockAnalyze ==
    /\ mockOut = Undefined
    /\ mockOut' = mockAnalysis(mockIn)
    /\ UNCHANGED <<mockIn, gwVars, uiVars>>

MockNext == MockAnalyze

MockSpec == MockInit /\ [][MockNext]_vars

GatewayInit == MockIdle /\ GatewayIdle /\ ClientIdle

GatewayNext ==
    \/ \E req \in GwRequests : GwReceive(req)
    \/ \E up \in UpstreamOutcomes : GwUpstreamSettles(up)

GatewaySpec == GatewayInit /\ [][GatewayNext]_vars

Init == MockIdle /\ GatewayIdle /\ ClientIdle

Next ==
    \/ \E t \in TypedTexts : onChange(t)
    \/ UseSampleText
    \/ Clear
    \/ handleAnalyze
    \/ \E c \in BagToSet(calls) : \E o \in AllFetchOutcomes : FetchSettles(c, o)
    \/ \E c \in BagToSet(calls) : TimerFires(c)

Spec == Init /\ [][Next]_vars

\* some pending fetch / resp.json() settles
SomeFetchSettles ==
    \E c \in BagToSet(calls) : \E o \in AllFetchOutcomes : FetchSettles(c, o)

\* some pending timer of the catch block fires
SomeTimerFires == \E c \in BagToSet(calls) : TimerFires(c)

\* The client with what its scheduling guarantees: a fetch that was started
\* settles (the HTTP client's timeout ends a call that gets no answer), and
\* a timer that was set fires.  Nothing makes the user act.
FairSpec == Spec /\ WF_vars(SomeFetchSettles) /\ WF_vars(SomeTimerFires)

---------------------------------------------------------------------------
(* Properties of the fallback scorer *)

\* w (lower case) occurs in s, whatever the case of s's letters
ContainsIgnoringCase(s, w) ==
    \E i \in 1..(Len(s) - Len(w) + 1) :
        \A j \in 1..Len(w) : Lower(s[i + j - 1]) = w[j]

\* s with every occurrence of "guys", in any case, replaced by "team"
GuysToTeam(s) ==
    LET starts == { i \in 1..(Len(s) - 3) :
                      <<Lower(s[i]), Lower(s[i + 1]), Lower(s[i + 2]), Lower(s[i + 3])>>
                          = <<"g","u","y","s">> }
    IN  [ i \in 1..Len(s) |->
            IF i \in starts THEN "t"
            ELSE IF i - 1 \in starts THEN "e"
            ELSE IF i - 2 \in starts THEN "a"
            ELSE IF i - 3 \in starts THEN "m"
            ELSE s[i] ]

\* the number of whitespace-delimited tokens of s: its maximal runs of
\* characters that are not spaces, tabs or newlines
WordCount(s) ==
    Cardinality({ i \in 1..Len(s) :
                    ~IsSpace(s[i]) /\ (i = 1 \/ IsSpace(s[i - 1])) })

MockDone == mockOut # Undefined

\* C6: the fallback scorer's result has a field improvedText, whose value is
\* "Improved (mock): " followed by the text with every case-insensitive
\* "guys" replaced by "team" (the field the AI Rewrite area reads).
C6_ImprovedTextField ==
    MockDone =>
        Get(mockOut, "improvedText") = Str(ImprovedPrefix \o GuysToTeam(mockIn))

\* C8: readability is at least 30, and is exactly 90 - wordCount/2 whenever
\* that is at least 30, wordCount being the number of whitespace-delimited
\* tokens (runs of spaces, tabs or newlines are one delimiter).
C8_ReadabilityByWordCount ==
    MockDone =>
        /\ mockOut.readability >= 3000
        /\ 9000 - 50 * WordCount(mockIn) >= 3000
             => mockOut.readability = 9000 - 50 * WordCount(mockIn)

\* C9: inclusivity.issues is exactly the one entry {index 0, text "guys",
\* suggestion "team"} when the text contains, in any case, "guys", "ladies"
\* or "manpower", and is empty otherwise; inclusivity.score is
\* 1 - 0.2 * issues.length, so it is 1.0 or 0.8.
C9_InclusivityIssues ==
    MockDone =>
        LET flagged == \E w \in { <<"g","u","y","s">>, <<"l","a","d","i","e","s">>,
                                  <<"m","a","n","p","o","w","e","r">> } :
                           ContainsIgnoringCase(mockIn, w)
            inc == mockOut.inclusivity
        IN  /\ inc.issues =
                  IF flagged
                  THEN << [index |-> 0, text |-> Str(<<"g","u","y","s">>),
                           suggestion |-> Str(<<"t","e","a","m">>)] >>
                  ELSE <<>>
            /\ inc.score = 100 - 20 * Len(inc.issues)
            /\ inc.score \in {100, 80}

\* the scorer has run on a text that says "ladies" or "manpower" but not
\* "guys", and reported the one "guys" issue with score 0.8
C9_Witness ==
    /\ MockDone
    /\ ~ContainsIgnoringCase(mockIn, <<"g","u","y","s">>)
    /\ ContainsIgnoringCase(mockIn, <<"m","a","n","p","o","w","e","r">>)
    /\ Len(mockOut.inclusivity.issues) = 1
    /\ mockOut.inclusivity.score = 80

\* C10: sentiment.label is "POSITIVE" exactly when tone.positivity exceeds
\* 0.6 and "NEUTRAL" otherwise; sentiment.score is tone.positivity, which is
\* 0.8 when the text contains, in any case, one of "thank", "thanks",
\* "excited", "thrill", "great", and 0.45 otherwise.
C10_SentimentFollowsPositivity ==
    MockDone =>
        LET positive == \E w \in { <<"t","h","a","n","k">>, <<"t","h","a","n","k","s">>,
                                   <<"e","x","c","i","t","e","d">>,
                                   <<"t","h","r","i","l","l">>, <<"g","r","e","a","t">> } :
                            ContainsIgnoringCase(mockIn, w)
        IN  /\ mockOut.tone.positivity = IF positive THEN 80 ELSE 45
            /\ mockOut.sentiment.score = mockOut.tone.positivity
            /\ mockOut.sentiment.label \in {"POSITIVE", "NEUTRAL"}
            /\ mockOut.sentiment.label = "POSITIVE" <=> mockOut.tone.positivity > 60

\* the scorer has run on a text that says "Great" and answered POSITIVE, 0.8
C10_Witness ==
    /\ MockDone
    /\ ContainsIgnoringCase(mockIn, <<"g","r","e","a","t">>)
    /\ \E i \in 1..Len(mockIn) : mockIn[i] = "G"
    /\ mockOut.sentiment.label = "POSITIVE"
    /\ mockOut.sentiment.score = 80

---------------------------------------------------------------------------
(* Properties of the Gateway *)

GwResponded == gwPc = "responded" /\ gwReq.kind # "malformed"

\* the upstream call failed: it was rejected (non-2xx, timeout, network
\* error) or its body has no choices to read
GwUpstreamFailed ==
    /\ gwUp # Undefined
    /\ \/ gwUp.kind = "reject"
       \/ gwUp.kind = "response" /\ "choices" \notin DOMAIN gwUp.data
       \/ gwUp.kind = "response" /\ "choices" \in DOMAIN gwUp.data
                                 /\ gwUp.data.choices = <<>>

\* the text is missing, empty, or empty after trimming
GwBlankText ==
    \/ Get(gwReq, "text").kind \in {"undefined", "null"}
    \/ Get(gwReq, "text").kind = "string" /\ Trim(Get(gwReq, "text").chars) = <<>>

\* C1: a request with non-empty text and provider "openai" whose upstream
\* call fails is answered with status 500 and a body carrying the upstream
\* error text, never with status 200.
C1_UpstreamFailureIs500 ==
    (GwResponded /\ ~GwBlankText /\ Get(gwReq, "provider") = OpenAI /\ GwUpstreamFailed)
        => /\ gwResp.status = 500
           /\ gwUp.kind = "reject" => Get(gwResp.body, "error") = gwUp.message

\* C2: a request whose text is missing, empty or whitespace-only is answered
\* 400 {"error":"Missing text"} with no upstream call made; no other text is
\* answered 400.
C2_BlankTextIs400 ==
    GwResponded =>
        /\ GwBlankText => /\ gwResp.status = 400
                          /\ gwResp.body = [kind |-> "object", error |-> MissingText]
                          /\ gwSent = <<>>
        /\ ~GwBlankText => gwResp.status # 400

\* C5: a request with non-empty text and provider "huggingface" or none makes
\* exactly one upstream call, with the raw text, and is answered 200 with
\* that provider's response as its data, which is never absent.
C5_HuggingFaceCallsUpstream ==
    (GwResponded /\ ~GwBlankText
                 /\ Get(gwReq, "provider") \in {HuggingFace, Undefined})
        => /\ Len(gwSent) = 1
           /\ gwResp.status = 200
           /\ "data" \in DOMAIN gwResp.body

---------------------------------------------------------------------------
(* Properties of the Dashboard client *)

\* how many calls are awaiting the Gateway's response
InFlightCount == BagCardinality([ c \in InFlight |-> CopiesIn(c, calls) ])

\* the Gateway call of the last completed analyze action failed: no
\* connection, a body that is not JSON, or a status outside 2xx
CompletedAfterFailure ==
    /\ completed # Undefined
    /\ \/ completed.outcome \in {"networkError", "unparseable"}
       \/ completed.status \notin 200..299

\* C3: when the Gateway call of an analyze action fails in any way (network
\* failure, a non-2xx response such as HTTP 500, a JSON parse failure), the
\* result the action stores is the fallback scorer's output for its text: a
\* fully populated object, never null, undefined or the error body.
C3_FailureStoresFallback ==
    CompletedAfterFailure =>
        /\ completed.stored.kind = "object"
        /\ completed.stored = mockAnalysis(completed.text)

\* C4: an analyze action on input that is empty after trimming sets the
\* validation message, starts no Gateway call, does not set loading to true
\* and leaves the displayed result unchanged.
C4_EmptyInputFrame ==
    [][ Trim(text) = <<>> =>
            /\ BagCardinality(calls') <= BagCardinality(calls)
            /\ loading' => loading
            /\ handleAnalyze => /\ error' = ValidationMessage
                                /\ UNCHANGED <<loading, result, calls>> ]_vars

\* an earlier analysis is displayed, the input is now blank, and Analyze
\* has answered with the validation message: result kept, nothing under way
C4_Witness ==
    /\ Trim(text) = <<>>
    /\ text # <<>>
    /\ error = ValidationMessage
    /\ result \notin {Null, Undefined}
    /\ ~loading
    /\ calls = EmptyBag

\* C7: at most one Gateway call is outstanding at any time: no click on
\* Analyze starts a second call before the first has completed.
C7_SingleCallInFlight == InFlightCount <= 1

\* a result the display layer shows: one that is set, not null or undefined
Renderable(v) == v.kind \notin {"null", "undefined"}

\* C11: an analyze action on non-empty trimmed text sets loading; every
\* handleAnalyze call that runs to its end, whatever the outcome of its
\* Gateway call (success, error response, network failure, unparseable
\* body), leaves loading false and a renderable result set; and, the Gateway
\* call completing or failing, loading never stays true for ever.
C11_AnalyzeEndsDisplayed ==
    /\ [][ (handleAnalyze /\ Trim(text) # <<>>) => loading' ]_vars
    /\ [][ BagCardinality(calls') < BagCardinality(calls)
             => ~loading' /\ Renderable(result') ]_vars
    /\ loading ~> (~loading /\ Renderable(result))

\* C12: loading is true whenever at least one Gateway call started by
\* callAnalyzeAPI has not yet completed; it is false only when none is
\* outstanding.
C12_LoadingWhileOutstanding == InFlightCount > 0 => loading

====
